---- MODULE Spec2Model ----
(***************************************************************************)
(* Model of the stix-shifter transmission path for the Carbonblack         *)
(* connector (carbonblack_connector.py), the command-line entry point      *)
(* (main.py) and the Bigfix pass-through query translator                  *)
(* (bigfix_query_translator.py).                                           *)
(*                                                                         *)
(* The vendor API client is an external collaborator: each call to it      *)
(* either raises or answers with a numeric code and a raw body.  Its       *)
(* answer is an input of the action that makes the call.                   *)
(***************************************************************************)
EXTENDS Integers, Sequences, FiniteSets, TLC

VARIABLES
    connector,   \* the fields of one long-lived Connector object
    sessions,    \* the caller's search sessions: what each search_id was submitted as
    last         \* the last call made: its layer, operation, arguments and outcome

vars == <<connector, sessions, last>>

-----------------------------------------------------------------------------
(* Bounds of the model *)

MaxRows == 2      \* a JSON array body holds 0..MaxRows rows
MaxOffset == 1    \* offsets 0..MaxOffset

Queries == {"q1", "q2"}
Connection == "conn"
Configuration == "conf"
Offsets == 0..MaxOffset
Lengths == {1, 10}

(* Response codes on both sides of each comparison of the connector *)
HTTP_OK_LOW == 200
HTTP_OK_HIGH == 300
Codes == {HTTP_OK_LOW - 1, HTTP_OK_LOW, HTTP_OK_HIGH - 1, HTTP_OK_HIGH, 500}

-----------------------------------------------------------------------------
(* Raw bodies are sequences of characters; json.loads is computed on them. *)

Digits == {"1", "5"}

DigitValue(c) == IF c = "1" THEN 1 ELSE 5

RECURSIVE ArrayInner(_)
ArrayInner(k) ==
    IF k = 0 THEN <<>>
    ELSE IF k = 1 THEN <<"1">>
    ELSE ArrayInner(k - 1) \o <<",", "1">>

ArrayBody(k) == <<"[">> \o ArrayInner(k) \o <<"]">>

Bodies ==
    { ArrayBody(k) : k \in 0..MaxRows }
        \cup { <<"5">> }                       \* a JSON scalar
        \cup { <<>>, <<"[", "1">>, <<"[", "1", ",", "]">> }   \* not JSON

Raise(err) == [kind |-> "raise", err |-> err]
Return(value) == [kind |-> "return", value |-> value]

(* json.loads: a digit is a number; [d,d,...] is a list; anything else     *)
(* raises JSONDecodeError.                                                  *)
json_loads(s) ==
    IF Len(s) = 1 /\ s[1] \in Digits
    THEN Return([type |-> "int", items |-> <<DigitValue(s[1])>>])
    ELSE IF Len(s) >= 2 /\ s[1] = "[" /\ s[Len(s)] = "]"
    THEN LET inner == SubSeq(s, 2, Len(s) - 1)
             n == Len(inner)
         IN  IF n = 0
             THEN Return([type |-> "list", items |-> <<>>])
             ELSE IF /\ n % 2 = 1
                     /\ \A i \in 1..n :
                          IF i % 2 = 1 THEN inner[i] \in Digits ELSE inner[i] = ","
             THEN Return([type |-> "list",
                          items |-> [j \in 1..((n + 1) \div 2) |->
                                        DigitValue(inner[2 * j - 1])]])
             ELSE Raise("JSONDecodeError")
    ELSE Raise("JSONDecodeError")

(* len(): defined on lists, TypeError on numbers *)
py_len(v) ==
    IF v.type = "list" THEN Return(Len(v.items)) ELSE Raise("TypeError")

-----------------------------------------------------------------------------
(* What one call to the API client does *)

ApiErrors == {"ConnectionError", "AuthenticationError"}

ApiOutcomes ==
    [kind : {"raise"}, err : ApiErrors]
        \cup [kind : {"response"}, code : Codes, body : Bodies]

NoApi == [kind |-> "unused"]

ApiCall(fn, args) == [fn |-> fn, args |-> args]

(* What a method call yields: the object after it, its return value or the *)
(* exception leaving it, and the API client calls it made.                 *)
Result(self, out, requests) ==
    [self |-> self, out |-> out, requests |-> requests]

-----------------------------------------------------------------------------
(* Connector *)

Connector_init(connection, configuration) ==
    [api_client |-> [connection |-> connection, configuration |-> configuration],
     ping_connector |-> "self",
     results_connector |-> "self",
     query_connector |-> "self",
     is_async |-> FALSE]

(* ping_try with the upper comparison inclusive *)
ping_try_inclusive(api) ==
    IF api.kind = "raise" THEN Raise(api.err)
    ELSE LET response_code == api.code
             response_json == json_loads(api.body)
         IN  IF response_json.kind = "raise" THEN response_json
             ELSE LET n == py_len(response_json.value)
                  IN  IF n.kind = "raise" THEN n
                      ELSE IF n.value > 0
                              /\ HTTP_OK_LOW <= response_code
                              /\ response_code <= HTTP_OK_HIGH
                      THEN Return([success |-> TRUE])
                      ELSE Return([success |-> FALSE,
                                   error |-> <<"error when pinging data source">>])

(* the try block of ping *)
ping_try(api) ==
    IF api.kind = "raise" THEN Raise(api.err)
    ELSE LET response_code == api.code
             response_json == json_loads(api.body)
         IN  IF response_json.kind = "raise" THEN response_json
             ELSE LET n == py_len(response_json.value)
                  IN  IF n.kind = "raise" THEN n
                      ELSE IF n.value > 0
                              /\ HTTP_OK_LOW <= response_code
                              /\ response_code < HTTP_OK_HIGH
                      THEN Return([success |-> TRUE])
                      ELSE Return([success |-> FALSE,
                                   error |-> <<"error when pinging data source">>])

(* ping whose except clause is missing: what the try block raises leaves it *)
ping_no_except(self, api) ==
    Result(self, ping_try(api), <<ApiCall("ping_box", <<>>)>>)

ping(self, api) ==
    LET t == ping_try(api)
        out == IF t.kind = "raise"
               THEN Return([success |-> FALSE,
                            error |-> <<"error when pinging data source: ", t.err>>])
               ELSE t
    IN  Result(self, out, <<ApiCall("ping_box", <<>>)>>)

(* create_query_connection that attaches rows to its envelope *)
create_query_connection_with_data(self, query) ==
    Result(self,
           Return([success |-> TRUE, search_id |-> query,
                   data |-> [type |-> "list", items |-> <<>>]]),
           <<>>)

(* create_query_connection that keeps the query on the connector *)
create_query_connection_storing(self, query) ==
    Result([self EXCEPT !.query_connector = query],
           Return([success |-> TRUE, search_id |-> query]), <<>>)

create_query_connection(self, query) ==
    Result(self, Return([success |-> TRUE, search_id |-> query]), <<>>)

(* results_requests that runs the search twice *)
results_requests_twice(search_id, offset, length) ==
    LET query == search_id
    IN  <<ApiCall("run_search", <<query>>), ApiCall("run_search", <<query>>)>>

(* the request create_results_connection sends *)
results_requests(search_id, offset, length) ==
    LET query == search_id
    IN  <<ApiCall("run_search", <<query>>)>>

(* results_try with the lower comparison strict *)
results_try_strict(api) ==
    IF api.kind = "raise" THEN Raise(api.err)
    ELSE LET response_code == api.code
             response_json == json_loads(api.body)
         IN  IF response_json.kind = "raise" THEN response_json
             ELSE IF HTTP_OK_LOW < response_code /\ response_code < HTTP_OK_HIGH
             THEN Return([success |-> TRUE, data |-> response_json.value])
             ELSE Return([success |-> FALSE,
                          error |-> <<"error when creating search">>])

(* results_try with the non-empty test of ping *)
results_try_nonempty(api) ==
    IF api.kind = "raise" THEN Raise(api.err)
    ELSE LET response_code == api.code
             response_json == json_loads(api.body)
         IN  IF response_json.kind = "raise" THEN response_json
             ELSE LET n == py_len(response_json.value)
                  IN  IF n.kind = "raise" THEN n
                      ELSE IF n.value > 0
                              /\ HTTP_OK_LOW <= response_code
                              /\ response_code < HTTP_OK_HIGH
                      THEN Return([success |-> TRUE, data |-> response_json.value])
                      ELSE Return([success |-> FALSE,
                                   error |-> <<"error when creating search">>])

(* the try block of create_results_connection *)
results_try(api) ==
    IF api.kind = "raise" THEN Raise(api.err)
    ELSE LET response_code == api.code
             response_json == json_loads(api.body)
         IN  IF response_json.kind = "raise" THEN response_json
             ELSE IF HTTP_OK_LOW <= response_code /\ response_code < HTTP_OK_HIGH
             THEN Return([success |-> TRUE, data |-> response_json.value])
             ELSE Return([success |-> FALSE,
                          error |-> <<"error when creating search">>])

create_results_connection(self, search_id, offset, length, api) ==
    LET t == results_try(api)
        out == IF t.kind = "raise"
               THEN Return([success |-> FALSE,
                            error |-> <<"error when creating search: ", t.err>>])
               ELSE t
    IN  Result(self, out, results_requests(search_id, offset, length))

-----------------------------------------------------------------------------
(* BigfixQueryTranslator *)

OptionKeys == {"result_limit", "timerange", "not_an_option"}

OptionsRecords == UNION { [keys -> {1, 10}] : keys \in SUBSET OptionKeys }

Mappings == {"None", "mapping_a"}

(* transform_query that answers with the mapping when one is given *)
transform_query_mapped(data, options, mapping) ==
    Return(IF mapping = "None" THEN data ELSE mapping)

transform_query(data, options, mapping) ==
    Return(data)

-----------------------------------------------------------------------------
(* StixTransmission: the driver main.py calls.  It holds the connector     *)
(* built for the module and hands each operation to it; an operation the   *)
(* connector does not define is reported in an envelope.                   *)

NotSupported == [success |-> FALSE, error |-> <<"capability not supported">>]

StixTransmission_init(module, connection, configuration) ==
    Connector_init(connection, configuration)

StixTransmission_query(interface, query) ==
    create_query_connection(interface, query)

StixTransmission_status(interface, search_id) ==
    Result(interface, Return(NotSupported), <<>>)

StixTransmission_results(interface, search_id, offset, length, api) ==
    create_results_connection(interface, search_id, offset, length, api)

StixTransmission_delete(interface, search_id) ==
    Result(interface, Return(NotSupported), <<>>)

StixTransmission_ping(interface, api) ==
    ping(interface, api)

StixTransmission_is_async(interface) ==
    Result(interface, Return([is_async |-> interface.is_async]), <<>>)

-----------------------------------------------------------------------------
(* main.py *)

PING == "ping"
QUERY == "query"
RESULTS == "results"
STATUS == "status"
DELETE == "delete"
IS_ASYNC == "is_async"

(* operation_command when the command line names no operation *)
NoOperation == "None"

(* the operations the operation subparser has a parser for *)
OperationParsers == {PING, QUERY, RESULTS, STATUS, IS_ASYNC}

transmit(args, api) ==
    LET transmission ==
            StixTransmission_init(args.module, args.connection, args.configuration)
        operation_command == args.operation_command
    IN  IF operation_command = QUERY
        THEN StixTransmission_query(transmission, args.query_string)
        ELSE IF operation_command = STATUS
        THEN StixTransmission_status(transmission, args.search_id)
        ELSE IF operation_command = RESULTS
        THEN StixTransmission_results(transmission, args.search_id,
                                      args.offset, args.length, api)
        ELSE IF operation_command = DELETE
        THEN StixTransmission_delete(transmission, args.search_id)
        ELSE IF operation_command = PING
        THEN StixTransmission_ping(transmission, api)
        ELSE IF operation_command = IS_ASYNC
        THEN StixTransmission_is_async(transmission)
        ELSE Result(transmission, Raise("NotImplementedError"), <<>>)

(* parse_args, then the transmit command: an operation without a parser    *)
(* ends the process with the usage error of argparse, status 2.            *)
main(args, api) ==
    IF args.operation_command # NoOperation
        /\ args.operation_command \notin OperationParsers
    THEN Result("none", [kind |-> "exit", status |-> 2], <<>>)
    ELSE transmit(args, api)

(* The command lines tried *)
CommandLines ==
    LET base == [module |-> "carbonblack", connection |-> Connection,
                 configuration |-> Configuration]
        With(op, rest) == base @@ [operation_command |-> op] @@ rest
    IN  { With(PING, <<>>), With(IS_ASYNC, <<>>), With(NoOperation, <<>>) }
        \cup { With(QUERY, [query_string |-> q]) : q \in Queries }
        \cup { With(op, [search_id |-> q]) : op \in {STATUS, DELETE}, q \in Queries }
        \cup { With(RESULTS, [search_id |-> q, offset |-> o, length |-> l]) :
                 q \in Queries, o \in Offsets, l \in Lengths }

(* whether the operation reaches the API client *)
UsesApi(op) == op \in {PING, RESULTS}

-----------------------------------------------------------------------------
(* State *)

NoCall ==
    [layer |-> "none", op |-> "none", args |-> [none |-> TRUE],
     api |-> NoApi, out |-> [kind |-> "none"], requests |-> <<>>]

Call(layer, op, args, api, r) ==
    [layer |-> layer, op |-> op, args |-> args, api |-> api,
     out |-> r.out, requests |-> r.requests]

Init ==
    /\ connector = Connector_init(Connection, Configuration)
    /\ sessions = {}
    /\ last = NoCall

(* A session is opened by a submission that returned success with a        *)
(* search_id.                                                              *)
NewSessions(query, out) ==
    IF out.kind = "return" /\ out.value.success /\ "search_id" \in DOMAIN out.value
    THEN sessions \cup {[search_id |-> out.value.search_id, query |-> query]}
    ELSE sessions

Ping ==
    \E api \in ApiOutcomes :
        LET r == ping(connector, api)
        IN  /\ connector' = r.self
            /\ last' = Call("connector", "ping", [none |-> TRUE], api, r)
            /\ UNCHANGED sessions

CreateQueryConnection ==
    \E query \in Queries :
        LET r == create_query_connection(connector, query)
        IN  /\ connector' = r.self
            /\ last' = Call("connector", "query", [query |-> query], NoApi, r)
            /\ sessions' = NewSessions(query, r.out)

CreateResultsConnection ==
    \E search_id \in Queries, offset \in Offsets, length \in Lengths,
       api \in ApiOutcomes :
        LET r == create_results_connection(connector, search_id, offset, length, api)
        IN  /\ connector' = r.self
            /\ last' = Call("connector", "results",
                            [search_id |-> search_id, offset |-> offset,
                             length |-> length], api, r)
            /\ UNCHANGED sessions

TransformQuery ==
    \E data \in Queries, options \in OptionsRecords, mapping \in Mappings :
        /\ last' = Call("translator", "transform_query",
                        [data |-> data, options |-> options, mapping |-> mapping],
                        NoApi,
                        Result("none", transform_query(data, options, mapping), <<>>))
        /\ UNCHANGED <<connector, sessions>>

Main ==
    \E args \in CommandLines :
        \E api \in IF UsesApi(args.operation_command) THEN ApiOutcomes ELSE {NoApi} :
            /\ last' = Call("cli", args.operation_command, args, api, main(args, api))
            /\ UNCHANGED <<connector, sessions>>

Next ==
    \/ Ping
    \/ CreateQueryConnection
    \/ CreateResultsConnection
    \/ TransformQuery
    \/ Main

Spec == Init /\ [][Next]_vars

-----------------------------------------------------------------------------
(* Vocabulary of the properties *)

IsCall(layer, op) == last.layer = layer /\ last.op = op

Returned == last.out.kind = "return"

Envelope == last.out.value

Has(field) == field \in DOMAIN Envelope

In2xx(code) == code \in HTTP_OK_LOW..(HTTP_OK_HIGH - 1)

(* the API client raised, or answered with a body that is not JSON *)
ApiFailed(api) ==
    \/ api.kind = "raise"
    \/ api.kind = "response" /\ json_loads(api.body).kind = "raise"

Parsed(api) == json_loads(api.body).value

(* the body parsed to a sized value holding at least one element *)
ParsedNonEmpty(api) ==
    /\ api.kind = "response"
    /\ ~ApiFailed(api)
    /\ Parsed(api).type = "list"
    /\ Len(Parsed(api).items) > 0

Submitted(search_id) == \E s \in sessions : s.search_id = search_id

IsErrorEnvelope ==
    /\ Returned
    /\ Envelope.success = FALSE
    /\ Has("error")
    /\ Len(Envelope.error) > 0
    /\ ~Has("data")

-----------------------------------------------------------------------------
(* C1 as stated: create_results_connection for a search identifier no      *)
(* query was submitted for returns an error envelope and never native      *)
(* data, whatever the API client answers.                                  *)
C1_PrematureResults ==
    (IsCall("connector", "results") /\ ~Submitted(last.args.search_id))
        => IsErrorEnvelope

(* C1 amended: create_results_connection makes no check of the session: for *)
(* a search identifier no query was submitted for it returns the native    *)
(* data whenever the API client answers 2xx with a JSON body, and otherwise *)
(* an 'error when creating search' envelope.                               *)
C1_NoSessionCheck ==
    (IsCall("connector", "results") /\ ~Submitted(last.args.search_id))
        => /\ Returned
           /\ IF ~ApiFailed(last.api) /\ In2xx(last.api.code)
              THEN Envelope = [success |-> TRUE, data |-> Parsed(last.api)]
              ELSE /\ IsErrorEnvelope
                   /\ Envelope.error[1] \in {"error when creating search",
                                             "error when creating search: "}

C1_Witness ==
    /\ IsCall("connector", "results")
    /\ ~Submitted(last.args.search_id)
    /\ Returned /\ Envelope.success /\ Has("data")
    /\ Len(Envelope.data.items) > 0

-----------------------------------------------------------------------------
(* C2 as stated: the submission call of the synchronous connector returns  *)
(* an envelope whose data field holds the final rows.                      *)
C2_QueryReturnsData ==
    (IsCall("connector", "query") /\ ~connector.is_async)
        => Returned /\ Envelope.success /\ Has("data")

(* C2 amended: the connector is synchronous (is_async false), and its      *)
(* submission call returns exactly {success: true, search_id: query}: no   *)
(* data field, no contact with the data source.  Only an envelope of       *)
(* create_results_connection carries data.                                 *)
C2_QueryReturnsSearchIdOnly ==
    /\ connector.is_async = FALSE
    /\ IsCall("connector", "query")
        => /\ last.out = Return([success |-> TRUE, search_id |-> last.args.query])
           /\ ~Has("data")
           /\ last.requests = <<>>
    /\ (last.layer = "connector" /\ Returned /\ Has("data")) => last.op = "results"

C2_Witness ==
    /\ IsCall("connector", "query")
    /\ Returned /\ Envelope.success /\ Has("search_id")

-----------------------------------------------------------------------------
(* C3: when the API client call of ping or create_results_connection fails *)
(* (it raises, or the body is not JSON), the operation returns an envelope *)
(* with success false and an error message; no exception leaves it.        *)
C3_FailuresNormalized ==
    (last.layer = "connector" /\ last.op \in {"ping", "results"}
        /\ ApiFailed(last.api))
        => IsErrorEnvelope

C3_Witness ==
    /\ IsCall("connector", "ping")
    /\ last.api.kind = "response" /\ ApiFailed(last.api)
    /\ IsErrorEnvelope

-----------------------------------------------------------------------------
(* C4: ping succeeds exactly when the code is in 200..299 and the parsed   *)
(* body is non-empty; 200 with a non-empty body gives success true, 500    *)
(* gives success false with an error message.                              *)
C4_PingSuccess ==
    IsCall("connector", "ping")
        => /\ Returned
           /\ Envelope.success <=>
                (/\ last.api.kind = "response"
                 /\ In2xx(last.api.code)
                 /\ ParsedNonEmpty(last.api))
           /\ Envelope.success => Envelope = [success |-> TRUE]
           /\ ~Envelope.success => IsErrorEnvelope
           /\ (last.api.kind = "response" /\ last.api.code = 500) => IsErrorEnvelope

C4_Witness ==
    /\ IsCall("connector", "ping")
    /\ last.api.kind = "response" /\ last.api.code = HTTP_OK_LOW
    /\ ParsedNonEmpty(last.api)
    /\ Returned /\ Envelope.success

-----------------------------------------------------------------------------
(* C5: the offset and length of a results request reach the data-source    *)
(* request: a results call with the same search_id and another offset or   *)
(* length issues a different native request.                               *)
C5_OffsetLengthReachRequest ==
    last.op = "results"
        => \A o \in Offsets, l \in Lengths :
              <<o, l>> # <<last.args.offset, last.args.length>>
                 => create_results_connection(connector, last.args.search_id,
                                              o, l, last.api).requests
                        # last.requests

-----------------------------------------------------------------------------
(* C6: a delete request given to the transmission entry point, for a       *)
(* connector without delete support, comes back as an envelope with        *)
(* success false and a capability-not-supported error.                     *)
C6_DeleteReported ==
    IsCall("cli", DELETE)
        => /\ Returned
           /\ Envelope = NotSupported

-----------------------------------------------------------------------------
(* C7: transform_query returns exactly the data it was given, for every    *)
(* options record and every mapping argument, and never raises.            *)
C7_TransformQueryIdentity ==
    IsCall("translator", "transform_query")
        => last.out = Return(last.args.data)

C7_Witness ==
    /\ IsCall("translator", "transform_query")
    /\ "not_an_option" \in DOMAIN last.args.options
    /\ last.args.mapping = "None"
    /\ last.out.kind = "return"

-----------------------------------------------------------------------------
(* What a connector fresh from its constructor answers to the last call *)
Replay ==
    IF last.op = "ping"
    THEN ping(Connector_init(Connection, Configuration), last.api)
    ELSE IF last.op = "query"
    THEN create_query_connection(Connector_init(Connection, Configuration),
                                 last.args.query)
    ELSE create_results_connection(Connector_init(Connection, Configuration),
                                   last.args.search_id, last.args.offset,
                                   last.args.length, last.api)

(* C8: no call changes a field of the connector, and the envelope of each  *)
(* call is the one its arguments and the API client's answer determine,    *)
(* whatever was called before.                                             *)
C8_NoCrossCallState ==
    [][ /\ connector' = connector
        /\ last'.layer = "connector" => last'.out = Replay'.out ]_vars

C8_Witness ==
    /\ IsCall("connector", "results")
    /\ sessions = { [search_id |-> q, query |-> q] : q \in Queries }
    /\ connector = Connector_init(Connection, Configuration)

-----------------------------------------------------------------------------
(* C9 as stated: create_results_connection returns success true with the   *)
(* parsed body as data exactly when the response code is in 200..299, and  *)
(* an error envelope for every other code.                                 *)
C9_SuccessIffCode2xx ==
    (IsCall("connector", "results") /\ last.api.kind = "response")
        => /\ Returned
           /\ Envelope.success <=> In2xx(last.api.code)

(* C9 amended: success true with data equal to the parsed body exactly     *)
(* when the response code is in 200..299 and the body parses as JSON (an   *)
(* empty parsed body still counts); in every other case success false with *)
(* an error message and no data.  No envelope carries both data and error. *)
C9_SuccessIffCode2xxAndJson ==
    IsCall("connector", "results")
        => /\ Returned
           /\ Envelope.success <=>
                (/\ last.api.kind = "response"
                 /\ In2xx(last.api.code)
                 /\ ~ApiFailed(last.api))
           /\ Envelope.success
                => Envelope = [success |-> TRUE, data |-> Parsed(last.api)]
           /\ ~Envelope.success => IsErrorEnvelope
           /\ ~(Has("data") /\ Has("error"))

C9_Witness ==
    /\ IsCall("connector", "results")
    /\ Returned /\ Envelope.success
    /\ Envelope.data = [type |-> "list", items |-> <<>>]

-----------------------------------------------------------------------------
(* C10: create_query_connection succeeds for every query without calling   *)
(* the API client and returns the query as search_id; a following          *)
(* create_results_connection with that search_id issues exactly one        *)
(* run_search call, whose argument is the query submitted.                 *)
C10_SearchIdIsQuery ==
    /\ IsCall("connector", "query")
        => /\ Returned
           /\ Envelope.success
           /\ Envelope.search_id = last.args.query
           /\ last.requests = <<>>
    /\ IsCall("connector", "results")
        => \A s \in sessions :
              s.search_id = last.args.search_id
                 => last.requests = <<ApiCall("run_search", <<s.query>>)>>

C10_Witness ==
    /\ IsCall("connector", "results")
    /\ Submitted(last.args.search_id)
    /\ Len(last.requests) = 1

====
